---- MODULE Spec2Model ----
(***************************************************************************)
(* use-safe-context: the hook useSafeContext of src/src/index.ts, the      *)
(* React read primitive it is built on, and the runtime's stack string it  *)
(* parses when the context value is undefined.                             *)
(*                                                                         *)
(* JavaScript strings are sequences of one-character strings, so that      *)
(* String.prototype.split is computed and not assumed.                     *)
(***************************************************************************)
EXTENDS Integers, Sequences, FiniteSets, TLC

(***************************************************************************)
(* Bounds                                                                  *)
(***************************************************************************)
\* deepest nesting of providers of the context above the consumer
MaxDepth == 1
\* longest chain of callers below the reader on the call stack
MaxCallers == 2

(***************************************************************************)
(* JavaScript values                                                       *)
(***************************************************************************)
JSValue(t, n, s) == [t |-> t, n |-> n, s |-> s]
Undefined == JSValue("undefined", 0, <<>>)
Null == JSValue("null", 0, <<>>)
Num(n) == JSValue("number", n, <<>>)
Bool(b) == JSValue("boolean", IF b THEN 1 ELSE 0, <<>>)
Str(s) == JSValue("string", 0, s)
Obj(r) == JSValue("object", r, <<>>)

\* the values a provider can be given: undefined, the other falsy values
\* null, 0, false and "", and a truthy object
ProviderValues == {Undefined, Null, Num(0), Bool(FALSE), Str(<<>>), Obj(1)}

(***************************************************************************)
(* Words of the stack traces                                               *)
(***************************************************************************)
W_App == <<"A","p","p">>
W_useAuth == <<"u","s","e","A","u","t","h">>
W_AuthProvider == <<"A","u","t","h","P","r","o","v","i","d","e","r">>
W_useUser == <<"u","s","e","U","s","e","r">>
W_UserProvider == <<"U","s","e","r","P","r","o","v","i","d","e","r">>
W_useCounter == <<"u","s","e","C","o","u","n","t","e","r">>
W_useChat == <<"u","s","e","C","h","a","t">>
W_readSafe == <<"r","e","a","d","S","a","f","e">>
W_useSafeContext == <<"u","s","e","S","a","f","e","C","o","n","t","e","x","t">>
W_ContextProvider == <<"C","o","n","t","e","x","t","P","r","o","v","i","d","e","r">>
W_ChatProvider == <<"C","h","a","t","P","r","o","v","i","d","e","r">>
W_ConsumerComponent == <<"C","o","n","s","u","m","e","r","C","o","m","p","o","n","e","n","t">>
L_tsx_8_33 == <<".","t","s","x",":","8",":","3","3">>
L_tsx_4_21 == <<".","t","s","x",":","4",":","2","1">>
L_origin == <<"h","t","t","p",":","/","/","l","o","c","a","l","h","o","s","t","/","s","r","c","/">>
L_reader == <<"u","s","e","-","s","a","f","e","-","c","o","n","t","e","x","t",".","j","s","?","v","=","7","6","6","d","6","e","d","6",":","1","1",":","1","3","8">>

S_Error == <<"E","r","r","o","r">>
S_NL == <<"\n">>
S_Indent == <<" "," "," "," ">>
S_At == <<"a","t"," ">>
S_MustBeUsedWithin == <<" ","m","u","s","t"," ","b","e"," ","u","s","e","d"," ","w","i","t","h","i","n"," ">>
S_CannotRead == <<"C","a","n","n","o","t"," ","r","e","a","d"," ","p","r","o","p","e","r","t","i","e","s"," ","o","f"," ","u","n","d","e","f","i","n","e","d"," ","(","r","e","a","d","i","n","g"," ","'","s","p","l","i","t","'",")">>

(***************************************************************************)
(* Stack frames and the stack string of a new Error                        *)
(***************************************************************************)
\* a frame is a function name and a source location (empty: none shown)
Frame(fn, loc) == [fn |-> fn, loc |-> loc]

\* "fn (loc)", or "fn" alone for a frame without location
Descriptor(f) == IF f.loc = <<>> THEN f.fn ELSE f.fn \o <<" ", "(">> \o f.loc \o <<")">>

\* frame[0]: the reader itself
ReaderFrames == {Frame(W_readSafe, <<>>), Frame(W_useSafeContext, L_reader)}

\* the frames below the reader: the wrapping hooks and the components
HookReadme == Frame(W_useCounter, W_ContextProvider \o L_tsx_8_33)
HookChat == Frame(W_useChat, L_origin \o W_ChatProvider \o L_tsx_8_33)
HookAuth == Frame(W_useAuth, L_origin \o W_AuthProvider \o L_tsx_8_33)
HookUser == Frame(W_useUser, L_origin \o W_UserProvider \o L_tsx_8_33)
ComponentReadme == Frame(W_ConsumerComponent, W_ConsumerComponent \o L_tsx_4_21)
ComponentApp == Frame(W_App, L_origin \o W_App \o L_tsx_4_21)
CallerFrames == {HookReadme, HookChat, HookAuth, HookUser, ComponentReadme, ComponentApp}

Take(s, n) == SubSeq(s, 1, IF n < Len(s) THEN n ELSE Len(s))

\* the frames the runtime puts in the trace: innermost first, cut at the limit
VisibleFrames(reader, below, limit) == Take(<<reader>> \o below, limit)

RECURSIVE FrameLines(_)
FrameLines(fs) ==
    IF fs = <<>> THEN <<>>
    ELSE S_NL \o S_Indent \o S_At \o Descriptor(fs[1]) \o FrameLines(Tail(fs))

\* new Error().stack: "Error" and one "\n    at <descriptor>" per frame, or
\* undefined on a runtime that attaches no stack
ErrorStack(supported, fs) ==
    IF supported THEN Str(S_Error \o FrameLines(fs)) ELSE Undefined

(***************************************************************************)
(* String.prototype.split(separator)                                       *)
(***************************************************************************)
MatchesAt(s, sep, i) ==
    /\ i + Len(sep) - 1 <= Len(s)
    /\ s[i] = sep[1]
    /\ SubSeq(s, i, i + Len(sep) - 1) = sep

\* the first index from i on where sep occurs in s, 0 if there is none
NextMatch(s, sep, i) ==
    LET found == {j \in i..(Len(s) - Len(sep) + 1) : MatchesAt(s, sep, j)}
    IN IF found = {} THEN 0 ELSE CHOOSE j \in found : \A k \in found : j <= k

RECURSIVE SplitFrom(_, _, _)
SplitFrom(s, sep, start) ==
    LET j == NextMatch(s, sep, start)
    IN IF j = 0 THEN << SubSeq(s, start, Len(s)) >>
       ELSE << SubSeq(s, start, j - 1) >> \o SplitFrom(s, sep, j + Len(sep))

Split(s, sep) == SplitFrom(s, sep, 1)

(***************************************************************************)
(* React: createContext, use, useContext                                   *)
(***************************************************************************)
\* createContext(undefined)
createContext(defaultValue) == [defaultValue |-> defaultValue]
CounterCtx == createContext(Undefined)

\* the value of the nearest enclosing provider, or the default
NearestValue(ctx, provs) ==
    IF provs = <<>> THEN ctx.defaultValue ELSE provs[Len(provs)]

use(ctx, provs) == NearestValue(ctx, provs)
useContext(ctx, provs) == NearestValue(ctx, provs)

\* use ?? useContext
SelectHook(hasUse) == IF hasUse THEN "use" ELSE "useContext"

\* variant: the fallback yields the context's default, whatever the providers
ReadWithDefaultFallback(hook, ctx, provs) ==
    IF hook = "use" THEN use(ctx, provs) ELSE ctx.defaultValue

\* useHook(context)
ReadWith(hook, ctx, provs) ==
    IF hook = "use" THEN use(ctx, provs) ELSE useContext(ctx, provs)

(***************************************************************************)
(* Outcomes of a call                                                      *)
(***************************************************************************)
Outcome(kind, name, value, message, hook, provider, trace) ==
    [kind |-> kind, name |-> name, value |-> value, message |-> message,
     hookName |-> hook, contextProviderName |-> provider, trace |-> trace]

NoCall == Outcome("none", "", Undefined, <<>>, <<>>, <<>>, <<>>)
Returned(v, trace) == Outcome("return", "", v, <<>>, <<>>, <<>>, trace \o <<"return">>)
Thrown(hook, provider, trace) ==
    Outcome("throw", "Error", Undefined, hook \o S_MustBeUsedWithin \o provider,
            hook, provider, trace \o <<"throw">>)
\* reading 'split' of undefined
TypeError(trace) ==
    Outcome("throw", "TypeError", Undefined, S_CannotRead, <<>>, <<>>, trace \o <<"throw">>)

\* what the caller can observe of an outcome
Observable(o) == [kind |-> o.kind, name |-> o.name, value |-> o.value, message |-> o.message]

\* !v
Falsy(v) == v \in {Undefined, Null, Num(0), Bool(FALSE), Str(<<>>)}

(***************************************************************************)
(* useSafeContext                                                          *)
(***************************************************************************)
\* The body of `if (contextVal === undefined)`: errorLine is element `index`
\* (counted from 1) of stack.split('at '); `stack` is what new Error().stack
\* yields at this point.
ThrowMissing(stack, index, trace) ==
    IF stack = Undefined THEN TypeError(trace)
    ELSE LET pieces == Split(stack.s, S_At) IN
         IF Len(pieces) < index THEN TypeError(trace)
         ELSE LET errorLine == pieces[index]
                  hookName == Split(errorLine, <<" ">>)[1]
                  splitBySlash == Split(errorLine, <<"/">>)
                  contextProviderName == Split(splitBySlash[Len(splitBySlash)], <<".">>)[1]
              IN Thrown(hookName, contextProviderName, trace)

\* variant: absence tested by truthiness, `if (!contextVal)`
useSafeContextTruthy(hook, ctx, provs, stack) ==
    LET contextVal == ReadWith(hook, ctx, provs)
        trace == <<hook, "compare">>
    IN IF Falsy(contextVal)
       THEN ThrowMissing(stack, 3, trace \o <<"stack">>)
       ELSE Returned(contextVal, trace)

\* variant: the provider is named after the next frame, split('at ')[3]
useSafeContextNextFrame(hook, ctx, provs, stack) ==
    LET contextVal == ReadWith(hook, ctx, provs)
        trace == <<hook, "compare">>
    IN IF contextVal = Undefined
       THEN ThrowMissing(stack, 4, trace \o <<"stack">>)
       ELSE Returned(contextVal, trace)

\* variant: the stack is captured before the comparison, on every call
useSafeContextEagerStack(hook, ctx, provs, stack) ==
    LET contextVal == ReadWith(hook, ctx, provs)
        trace == <<hook, "stack", "compare">>
    IN IF contextVal = Undefined
       THEN ThrowMissing(stack, 3, trace)
       ELSE Returned(contextVal, trace)

useSafeContext(hook, ctx, provs, stack) ==
    LET contextVal == ReadWith(hook, ctx, provs)
        trace == <<hook, "compare">>
    IN IF contextVal = Undefined
       THEN ThrowMissing(stack, 3, trace \o <<"stack">>)
       ELSE Returned(contextVal, trace)

(***************************************************************************)
(* State                                                                   *)
(***************************************************************************)
VARIABLES
    reactHasUse,      \* whether the installed react exports `use`
    useHook,          \* the module constant useHook: "use" or "useContext"
    hasStack,         \* whether the runtime attaches a stack to a new Error
    stackTraceLimit,  \* how many frames the runtime puts in a stack
    readerFrame,      \* the frame of the reader itself
    callers,          \* the frames below the reader, innermost first
    providers,        \* values of the enclosing providers, nearest last
    calls,            \* calls made since the surroundings last changed
    first,            \* outcome of the first of these calls
    result            \* outcome of the last of these calls

vars == <<reactHasUse, useHook, hasStack, stackTraceLimit, readerFrame,
          callers, providers, calls, first, result>>

\* most calls counted between two changes of the surroundings
MaxCalls == 2

Frames == VisibleFrames(readerFrame, callers, stackTraceLimit)
CurrentStack == ErrorStack(hasStack, Frames)
ProvidedValue == NearestValue(CounterCtx, providers)

Init ==
    /\ reactHasUse \in BOOLEAN
    /\ useHook = SelectHook(reactHasUse)
    /\ hasStack \in BOOLEAN
    /\ stackTraceLimit = MaxCallers + 1
    /\ readerFrame \in ReaderFrames
    /\ callers = <<>>
    /\ providers = <<>>
    /\ calls = 0
    /\ first = NoCall
    /\ result = NoCall

Forget ==
    /\ calls' = 0
    /\ first' = NoCall
    /\ result' = NoCall

\* <CounterCtx.Provider value={v}> is rendered around the consumer
MountProvider(v) ==
    /\ Len(providers) < MaxDepth
    /\ providers' = Append(providers, v)
    /\ Forget
    /\ UNCHANGED <<reactHasUse, useHook, hasStack, stackTraceLimit, readerFrame, callers>>

\* the nearest provider is no longer rendered around the consumer
UnmountProvider ==
    /\ providers # <<>>
    /\ providers' = SubSeq(providers, 1, Len(providers) - 1)
    /\ Forget
    /\ UNCHANGED <<reactHasUse, useHook, hasStack, stackTraceLimit, readerFrame, callers>>

\* a component or a hook is entered: it is the innermost caller from now on
EnterFrame(f) ==
    /\ Len(callers) < MaxCallers
    /\ callers' = <<f>> \o callers
    /\ Forget
    /\ UNCHANGED <<reactHasUse, useHook, hasStack, stackTraceLimit, readerFrame, providers>>

\* the innermost caller returns
LeaveFrame ==
    /\ callers # <<>>
    /\ callers' = Tail(callers)
    /\ Forget
    /\ UNCHANGED <<reactHasUse, useHook, hasStack, stackTraceLimit, readerFrame, providers>>

\* the limits the runtime is given: no frame at all, or every frame
StackTraceLimits == {0, MaxCallers + 1}

\* the runtime is told to keep n frames in a stack
SetStackTraceLimit(n) ==
    /\ n # stackTraceLimit
    /\ stackTraceLimit' = n
    /\ Forget
    /\ UNCHANGED <<reactHasUse, useHook, hasStack, readerFrame, callers, providers>>

\* variant: the error is raised once; later calls return what was read
CallThrowOnce ==
    /\ calls < MaxCalls
    /\ calls' = calls + 1
    /\ result' = IF result.kind = "throw"
                 THEN Returned(ProvidedValue, <<useHook, "compare">>)
                 ELSE useSafeContext(useHook, CounterCtx, providers, CurrentStack)
    /\ first' = IF calls = 0 THEN result' ELSE first
    /\ UNCHANGED <<reactHasUse, useHook, hasStack, stackTraceLimit, readerFrame,
                   callers, providers>>

\* the innermost caller calls useSafeContext(CounterCtx)
Call ==
    /\ calls < MaxCalls
    /\ calls' = calls + 1
    /\ result' = useSafeContext(useHook, CounterCtx, providers, CurrentStack)
    /\ first' = IF calls = 0 THEN result' ELSE first
    /\ UNCHANGED <<reactHasUse, useHook, hasStack, stackTraceLimit, readerFrame,
                   callers, providers>>

Next ==
    \/ Call
    \/ \E v \in ProviderValues : MountProvider(v)
    \/ UnmountProvider
    \/ \E f \in CallerFrames : EnterFrame(f)
    \/ LeaveFrame
    \/ \E n \in StackTraceLimits : SetStackTraceLimit(n)

Spec == Init /\ [][Next]_vars

(***************************************************************************)
(* Vocabulary of the properties                                            *)
(***************************************************************************)
Called == result.kind # "none"
\* the read yields the sentinel
Absent == ProvidedValue = Undefined
OtherHook(hook) == IF hook = "use" THEN "useContext" ELSE "use"

Positions(s, c) == {i \in 1..Len(s) : s[i] = c}
\* s up to its first c, all of s if it has none
BeforeFirst(s, c) ==
    IF Positions(s, c) = {} THEN s
    ELSE SubSeq(s, 1, (CHOOSE i \in Positions(s, c) : \A k \in Positions(s, c) : i <= k) - 1)
\* s after its last c, all of s if it has none
AfterLast(s, c) ==
    IF Positions(s, c) = {} THEN s
    ELSE SubSeq(s, (CHOOSE i \in Positions(s, c) : \A k \in Positions(s, c) : i >= k) + 1, Len(s))
Contains(s, sub) == \E i \in 1..Len(s) : MatchesAt(s, sub, i)
Occurrences(s, x) == Cardinality({i \in 1..Len(s) : s[i] = x})

W_undefined == <<"u","n","d","e","f","i","n","e","d">>
\* an absent read was made where the trace shows at least three frames
AbsentWithThreeFrames == Called /\ Absent /\ hasStack /\ Len(Frames) >= 3
\* the trace of the README: reader, wrapping hook, consuming component
ReadmeFrames == <<Frame(W_readSafe, <<>>), HookReadme, ComponentReadme>>

(***************************************************************************)
(* Properties                                                              *)
(***************************************************************************)

\* C1: with the default undefined and no enclosing provider, a call never
\* returns: it raises the context-missing error, whose message reads
\* "<consumerHookName> must be used within <expectedProviderName>".
C1_RaisesContextMissing ==
    (Called /\ providers = <<>> /\ CounterCtx.defaultValue = Undefined) =>
        /\ result.kind = "throw"
        /\ result.name = "Error"
        /\ result.message = result.hookName \o S_MustBeUsedWithin \o result.contextProviderName

\* C2: a value other than undefined supplied by the nearest provider is
\* returned as it is, the falsy values null, 0, false and "" included, and
\* no error is raised.
C2_ReturnsProvidedValue ==
    (Called /\ providers # <<>> /\ providers[Len(providers)] # Undefined) =>
        /\ result.kind = "return"
        /\ result.value = providers[Len(providers)]
        /\ result.message = <<>>

C2_Witness ==
    /\ Called /\ providers # <<>> /\ providers[Len(providers)] = Num(0)
    /\ result.kind = "return" /\ result.value = Num(0)

\* C3: on an absent read with the frames "readSafe",
\* "useCounter (ContextProvider.tsx:8:33)" and
\* "ConsumerComponent (ConsumerComponent.tsx:4:21)" the message is exactly
\* "useCounter must be used within ContextProvider".
C3_ReadmeMessage ==
    (Called /\ Absent /\ hasStack /\ Frames = ReadmeFrames) =>
        /\ result.kind = "throw"
        /\ result.message = W_useCounter \o S_MustBeUsedWithin \o W_ContextProvider

\* C4: on an absent read with fewer than three frames in the trace the call
\* raises a distinct diagnostic-unavailable error: no context-missing error
\* with "undefined" in its message, no low-level TypeError.
C4_FewFramesDiagnostic ==
    (Called /\ Absent /\ hasStack /\ Len(Frames) < 3) =>
        /\ result.kind = "throw"
        /\ result.name = "DiagnosticUnavailableError"
        /\ result.name # "TypeError"
        /\ ~(result.name = "Error" /\ Contains(result.message, W_undefined))

\* C5: on an absent read on a runtime that attaches no stack the call raises
\* a distinct, labelled diagnostic error and does not fail on reading a
\* property of the missing stack.
C5_NoStackDiagnostic ==
    (Called /\ Absent /\ ~hasStack) =>
        /\ result.kind = "throw"
        /\ result.name \notin {"TypeError", "Error"}

C9_HookNameFromFrame1 ==
    AbsentWithThreeFrames =>
        /\ result.name = "Error"
        /\ result.hookName = BeforeFirst(Descriptor(Frames[2]), " ")

\* C10: the read primitive is the one selected at initialization (`use` if
\* react provides it, else `useContext`); each call invokes it exactly once,
\* before the comparison with undefined, and captures a stack only when the
\* read was absent.
C10_SelectedOnceReadOnce ==
    /\ useHook = SelectHook(reactHasUse)
    /\ Called =>
        /\ result.trace[1] = useHook
        /\ result.trace[2] = "compare"
        /\ Occurrences(result.trace, "use") + Occurrences(result.trace, "useContext") = 1
        /\ Occurrences(result.trace, "stack") = (IF Absent THEN 1 ELSE 0)

C10_Witness ==
    /\ calls >= 2 /\ useHook = "useContext" /\ ~reactHasUse
    /\ result.kind = "return" /\ result.trace = <<"useContext", "compare", "return">>

====
